---- MODULE Spec2Model ----
(***************************************************************************)
(* Model of evaluate.py: loading of the classifier's stats files into      *)
(* ClipResult records (get_best_guess), clustering of the records into     *)
(* visits per camera (get_visits, VisitResult) and the confusion matrices  *)
(* of the track, clip and visit breakdowns.                                *)
(*                                                                         *)
(* Times are whole seconds.  Scores and clarities are multiples of 1/4     *)
(* (SCALE), chosen so that the square root in TrackResult.confidence is    *)
(* exact; confidences are kept in units of 1/8 so that the 0.5 weight of   *)
(* 'none' tracks is exact as well.                                         *)
(***************************************************************************)
EXTENDS Integers, Sequences, FiniteSets, TLC

\* ------------------------------------------------------------------ bounds
\* longest directory listing handed to get_visits
MaxFiles == 3
\* longest track list handed to get_best_guess on its own
MaxTracks == 3
\* most add_clip calls made on one VisitResult on its own
MaxAdds == 3

\* ------------------------------------------------------- program constants
NEW_VISIT_THRESHOLD == 3 * 60
NULL_TAGS == {"false-positive", "none", "no-tag"}
classes == <<"bird", "possum", "rat", "hedgehog", "none">>
ClassSet == {classes[i] : i \in 1..Len(classes)}
\* timedelta(hours=13) added to every parsed timestamp, in seconds
TZ_OFFSET == 13 * 3600
\* scores and clarities are given in units of 1/SCALE
SCALE == 4

None == <<>>
Some(x) == <<x>>

\* ---------------------------------------------------------------- helpers
\* sum of f[x] over a finite set S
RECURSIVE SumOver(_, _)
SumOver(f, S) ==
    IF S = {} THEN 0
    ELSE LET x == CHOOSE y \in S : TRUE IN f[x] + SumOver(f, S \ {x})

\* exact square root of a perfect square
ISqrt(n) == CHOOSE r \in 0..n : r * r = n

\* list.sort / sorted with a key: the items are decorated with their keys
\* (pairs <<key, item>>), sorted stably by insertion, and undecorated.
\* InsertByKey puts pair x after every pair whose key is <= the key of x.
RECURSIVE InsertByKey(_, _)
InsertByKey(s, x) ==
    IF s = <<>> THEN <<x>>
    ELSE IF x[1] < Head(s)[1] THEN <<x>> \o s
    ELSE <<Head(s)>> \o InsertByKey(Tail(s), x)

RECURSIVE SortPairs(_)
SortPairs(s) ==
    IF s = <<>> THEN <<>>
    ELSE InsertByKey(SortPairs(SubSeq(s, 1, Len(s) - 1)), s[Len(s)])

\* items sorted stably by keys, keys[i] being the key of items[i]
StableSort(items, keys) ==
    LET sorted == SortPairs([i \in 1..Len(items) |-> <<keys[i], items[i]>>])
    IN  [i \in 1..Len(items) |-> sorted[i][2]]

\* ------------------------------------------------------------ TrackResult
NormaliseTag(tag) == IF tag \in NULL_TAGS THEN "none" ELSE tag

TrackResult(track_record) ==
    [label   |-> NormaliseTag(track_record.label),
     score   |-> track_record.confidence,
     clarity |-> track_record.clarity]

\* TrackResult.confidence, in units of 1/(2*SCALE)
TrackConfidence(track) ==
    LET score_uncertanity   == SCALE - track.score
        clarity_uncertainty == SCALE - track.clarity
    IN  2 * (SCALE - ISqrt(score_uncertanity * clarity_uncertainty))

\* ------------------------------------------------------------- ClipResult
\* the weight of 'none' tracks: confidence *= 0.5
WeightedConfidence(track) ==
    IF track.label = "none" THEN TrackConfidence(track) \div 2
    ELSE TrackConfidence(track)

DictGet(d, k, default) == IF k \in DOMAIN d THEN d[k] ELSE default

DictSet(d, k, v) == [x \in DOMAIN d \cup {k} |-> IF x = k THEN v ELSE d[x]]

Max2(a, b) == IF a >= b THEN a ELSE b

\* one comparison of the running best: if confidence > best_confidence
BeatsBestLate(confidence, best_confidence) == confidence >= best_confidence

BeatsBest(confidence, best_confidence) == confidence > best_confidence

\* one iteration of the loop of get_best_guess
BestGuessStep(st, track) ==
    LET label      == track.label
        cc         == DictSet(st.class_confidences, label,
                        Max2(DictGet(st.class_confidences, label, 0),
                             WeightedConfidence(track)))
        confidence == cc[label]
    IN  IF BeatsBest(confidence, st.best_confidence)
        THEN [class_confidences |-> cc, best_label |-> label,
              best_confidence |-> confidence]
        ELSE [st EXCEPT !.class_confidences = cc]

BestGuessInit ==
    [class_confidences |-> <<>>, best_label |-> "none", best_confidence |-> 0]

RECURSIVE BestGuessLoop(_, _)
BestGuessLoop(st, tracks) ==
    IF tracks = <<>> THEN st
    ELSE BestGuessLoop(BestGuessStep(st, Head(tracks)), Tail(tracks))

\* get_best_guess: <<best_label, best_confidence>>
get_best_guess(tracks) ==
    LET st == BestGuessLoop(BestGuessInit, tracks)
    IN  <<st.best_label, st.best_confidence>>

\* ClipResult.__init__ for a stats file that parses; source stands for the
\* base name of the file
ClipResult(stats, source) ==
    LET tracks == [i \in 1..Len(stats.tracks) |-> TrackResult(stats.tracks[i])]
        guess  == get_best_guess(tracks)
    IN  [source     |-> source,
         tracks     |-> tracks,
         start_time |-> stats.start_time + TZ_OFFSET,
         end_time   |-> stats.end_time + TZ_OFFSET,
         camera     |-> stats.camera,
         true_tag   |-> NormaliseTag(stats.original_tag),
         classifier_best_guess |-> guess[1],
         classifier_best_score |-> guess[2]]

\* ------------------------------------------------------------ VisitResult
StartTimes(clips) == [i \in 1..Len(clips) |-> clips[i].start_time]
Scores(clips) == [i \in 1..Len(clips) |-> clips[i].classifier_best_score]

VisitResult(first_clip) == <<first_clip>>

add_clip_unsorted(clips, clip) == Append(clips, clip)

add_clip(clips, clip) == StableSort(Append(clips, clip), StartTimes(Append(clips, clip)))

VisitCamera(clips) == clips[1].camera
VisitTrueTag(clips) == clips[1].true_tag
VisitStartTime(clips) == IF Len(clips) = 0 THEN 0 ELSE clips[1].start_time
VisitEndTime(clips) == IF Len(clips) = 0 THEN 0 ELSE clips[Len(clips)].end_time

\* the first clip holding the maximum score, instead of the last
FirstMaxClip(clips) ==
    LET score == Scores(clips)
        i == CHOOSE j \in 1..Len(clips) :
                /\ \A k \in 1..Len(clips) : score[k] <= score[j]
                /\ \A k \in 1..(j - 1) : score[k] < score[j]
    IN  clips[i]

\* sorted(self.clips, key = classifier_best_score)[-1]
BestClip(clips) ==
    LET sorted_clips == StableSort(clips, Scores(clips))
    IN  sorted_clips[Len(sorted_clips)]

predicted_tag(clips) == BestClip(clips).classifier_best_guess
predicted_confidence(clips) == BestClip(clips).classifier_best_score

\* -------------------------------------------------------------- stats files
\* is_stats_file: the extension is .txt and the name has three '-' parts
is_stats_file(name) == name.ext = ".txt" /\ name.parts = 3

\* the record filter of the loading loop, without its test
KeepAnyRecord(record) == TRUE

\* the record filter testing the true tag instead of the best guess
KeepKnownTagRecord(record) == record.true_tag \in ClassSet

\* if record.classifier_best_guess in classes
KeepRecord(record) == record.classifier_best_guess \in ClassSet

\* the body of the loading loop for a stats file that parses
LoadStep(records, file) ==
    LET record == ClipResult(file.stats, file.name)
    IN  IF KeepRecord(record) THEN Append(records, record) ELSE records

\* set([record.camera for record in all_records])
CamerasOf(records) == {records[i].camera : i \in 1..Len(records)}

\* the per-camera filter, without its test of true_tag
OfCameraAnyTag(record, cam) == record.camera = cam

\* record.camera == camera and record.true_tag in classes
OfCamera(record, cam) == record.camera = cam /\ record.true_tag \in ClassSet

\* the records of one camera, filtered and sorted by start_time
CameraRecords(all, cam) ==
    LET kept == SelectSeq(all, LAMBDA r : OfCamera(r, cam))
    IN  StableSort(kept, StartTimes(kept))

\* -------------------------------------------------------------- clustering
\* the threshold test with a strict comparison
NeedsNewVisitStrict(gap, record_tag, visit_tag) ==
    gap > NEW_VISIT_THRESHOLD \/ record_tag # visit_tag

\* gap >= NEW_VISIT_THRESHOLD or (record.true_tag != current_visit.true_tag)
NeedsNewVisit(gap, record_tag, visit_tag) ==
    gap >= NEW_VISIT_THRESHOLD \/ record_tag # visit_tag

\* the clustering state left as the previous camera's loop ended
KeepClustering(st) == st

\* current_visit = None; previous_record_end = None, at the top of each camera
ResetClustering(st) ==
    [st EXCEPT !.current_visit = 0, !.previous_record_end = None]

\* one iteration of "for record in records".  st.current_visit is the index
\* in st.visits of the visit current_visit refers to, 0 for None.
VisitStep(st, record) ==
    LET seeded ==
            IF st.current_visit = 0
            THEN [st EXCEPT !.visits = Append(st.visits, VisitResult(record)),
                            !.current_visit = Len(st.visits) + 1]
            ELSE st
        gap ==
            IF st.previous_record_end # None
            THEN record.start_time - st.previous_record_end[1]
            ELSE 0
        cv == seeded.current_visit
        grouped ==
            IF NeedsNewVisit(gap, record.true_tag, VisitTrueTag(seeded.visits[cv]))
            THEN [seeded EXCEPT !.visits = Append(seeded.visits, VisitResult(record)),
                                !.current_visit = Len(seeded.visits) + 1]
            ELSE [seeded EXCEPT !.visits[cv] = add_clip(seeded.visits[cv], record)]
    IN  [grouped EXCEPT !.previous_record_end = Some(record.end_time)]

\* the loading loop of get_visits over a whole listing no file of which is
\* malformed
RECURSIVE LoadRecords(_)
LoadRecords(files) ==
    IF files = <<>> THEN <<>>
    ELSE LET before == LoadRecords(SubSeq(files, 1, Len(files) - 1))
             file   == files[Len(files)]
         IN  IF is_stats_file(file.name) THEN LoadStep(before, file) ELSE before

RECURSIVE ClusterLoop(_, _)
ClusterLoop(st, recs) ==
    IF recs = <<>> THEN st
    ELSE ClusterLoop(VisitStep(st, Head(recs)), Tail(recs))

\* the visits the body of the camera loop makes for one camera
ClusterCamera(all, cam) ==
    ClusterLoop(ResetClustering([visits |-> <<>>, current_visit |-> 0,
                                 previous_record_end |-> None]),
                CameraRecords(all, cam)).visits

\* ------------------------------------------------------------- evaluation
\* the matrix with rows and columns exchanged
ConfusionMatrixTransposed(true_class, pred_class, labels) ==
    LET L == {labels[i] : i \in 1..Len(labels)}
    IN  [t \in L |-> [p \in L |->
            Cardinality({i \in 1..Len(true_class) :
                            true_class[i] = p /\ pred_class[i] = t})]]

\* metrics.confusion_matrix(true_class, pred_class, labels=labels): cm[t][p]
\* counts the instances of true label t predicted p; an instance whose true
\* or predicted label is not in labels is counted nowhere
ConfusionMatrix(true_class, pred_class, labels) ==
    LET L == {labels[i] : i \in 1..Len(labels)}
    IN  [t \in L |-> [p \in L |->
            Cardinality({i \in 1..Len(true_class) :
                            true_class[i] = t /\ pred_class[i] = p})]]

\* cm.sum(axis=1) for one row
RowSum(matrix, t) == SumOver(matrix[t], DOMAIN matrix[t])

\* concatenation of a sequence of sequences
RECURSIVE Flatten(_)
Flatten(ss) == IF ss = <<>> THEN <<>> ELSE Head(ss) \o Flatten(Tail(ss))

\* the clips of all visits, in the order the breakdown loops meet them
AllClips(vs) == Flatten(vs)

\* (true_tag of the clip, label of the track) for every track of a clip
TrackPairs(clip) ==
    [i \in 1..Len(clip.tracks) |-> <<clip.true_tag, clip.tracks[i].label>>]

AllTrackPairs(vs) ==
    LET clips == AllClips(vs)
    IN  Flatten([i \in 1..Len(clips) |-> TrackPairs(clips[i])])

\* ------------------------------------------------------------------ state
VARIABLES
    listing,              \* os.listdir(path): the files of the source folder
    pc,                   \* where main is
    error,                \* the exception that ended the run, "none" if none
    fi,                   \* index in listing of the file the loading loop is at
    all_records,          \* get_visits: all_records
    cameras,              \* the cameras the camera loop has still to take
    camera,               \* the camera the camera loop is at
    records,              \* the records of that camera, sorted
    ri,                   \* index in records of the record the loop is at
    current_visit,        \* index in visits of current_visit, 0 for None
    previous_record_end,  \* None or Some(end_time)
    visits,               \* get_visits: visits, each visit its clips list
    cm,                   \* the confusion matrix of each breakdown made
    animal_visits,        \* print_summary: animal_visits
    g_tracks,             \* get_best_guess on its own: self.tracks
    g_i,                  \* the track its loop is at
    g_st,                 \* class_confidences, best_label, best_confidence
    g_pc,                 \* where the call is
    v_seed,               \* a VisitResult on its own: its first clip
    v_added,              \* the clips given to add_clip, in call order
    v_clips               \* self.clips

vars == <<listing, pc, error, fi, all_records, cameras, camera, records, ri,
          current_visit, previous_record_end, visits, cm, animal_visits,
          g_tracks, g_i, g_st, g_pc, v_seed, v_added, v_clips>>

visitVars == <<listing, pc, error, fi, all_records, cameras, camera, records, ri,
               current_visit, previous_record_end, visits, cm, animal_visits>>
guessVars == <<g_tracks, g_i, g_st, g_pc>>
clipsVars == <<v_seed, v_added, v_clips>>

\* ----------------------------------------------------------------- inputs
Track(label, score, clarity) ==
    [label |-> label, confidence |-> score, clarity |-> clarity]

\* confidences in eighths: bird 8; possum 8; bird 4; none 4; cat 8
TBirdHi   == <<Track("bird", 4, 0)>>
TPossumHi == <<Track("possum", 4, 0)>>
TBirdLo   == <<Track("bird", 3, 0)>>
TFalsePos == <<Track("false-positive", 4, 0)>>
TCat      == <<Track("cat", 4, 0)>>
TBirdCat  == <<Track("bird", 4, 0), Track("cat", 3, 0)>>

StatsName == [ext |-> ".txt", parts |-> 3]
\* a track stats file, date-time-camera-track
TrackStatsName == [ext |-> ".txt", parts |-> 4]

NoStats == [start_time |-> 0, end_time |-> 0, camera |-> "cam1",
            original_tag |-> "bird", tracks |-> <<>>]

StatsFiles(Cams, Tags, Starts, Durations, TrackLists) ==
    {[name |-> StatsName, valid |-> TRUE,
      stats |-> [start_time |-> s, end_time |-> s + d, camera |-> c,
                 original_tag |-> t, tracks |-> tl]] :
        c \in Cams, t \in Tags, s \in Starts, d \in Durations, tl \in TrackLists}

\* a stats file with an unparseable timestamp or a missing field
MalformedFile == [name |-> StatsName, valid |-> FALSE, stats |-> NoStats]
OtherFile == [name |-> TrackStatsName, valid |-> TRUE, stats |-> NoStats]

\* one camera, two tags of classes, gaps from -1 to 360 seconds, among them
\* 0, 179 and 180
TimingFiles ==
    StatsFiles({"cam1"}, {"bird", "possum"}, {0, 180, 360}, {0, 1}, {TBirdHi})
        \cup {MalformedFile}

\* two cameras, a tag and a best guess outside classes
FilterFiles ==
    {f \in StatsFiles({"cam1", "cam2"}, {"bird", "cat"}, {0, 180}, {1},
                      {TBirdHi, TCat}) :
        ~(f.stats.original_tag = "cat" /\ f.stats.tracks = TCat)}
        \cup {MalformedFile}

\* equal and different best scores, a null tag, a track label outside classes
ScoreFiles ==
    StatsFiles({"cam1"}, {"bird", "false-positive"}, {0}, {0},
               {TBirdHi, TPossumHi, TBirdLo, TFalsePos, TBirdCat})
        \cup {OtherFile}

Families == {TimingFiles, FilterFiles, ScoreFiles}

\* the listings of at most MaxFiles files of one family; the base name of
\* the file at position i is i
Listings ==
    UNION {UNION {[1..n -> F] : n \in 0..MaxFiles} : F \in Families}

Named(files) ==
    [i \in 1..Len(files) |->
        [files[i] EXCEPT !.name = [id |-> i, ext |-> files[i].name.ext,
                                   parts |-> files[i].name.parts]]]

GuessLabels == {"bird", "possum", "none", "false-positive"}
GuessTracks == {Track(l, s, c) : l \in GuessLabels, s \in {0, 3, 4}, c \in {0, 3}}

VisitClips ==
    {[source |-> n, start_time |-> s, end_time |-> s + d] :
        n \in {"a", "b"}, s \in {0, 60, 120}, d \in {10, 200}}

\* ------------------------------------------------------------------- Init
VisitIdle ==
    /\ listing = <<>> /\ pc = "idle" /\ error = "none" /\ fi = 1
    /\ all_records = <<>> /\ cameras = {} /\ camera = "" /\ records = <<>>
    /\ ri = 1 /\ current_visit = 0 /\ previous_record_end = None
    /\ visits = <<>> /\ cm = <<>> /\ animal_visits = <<>>

GuessIdle == g_tracks = <<>> /\ g_i = 1 /\ g_st = BestGuessInit /\ g_pc = "idle"

ClipsIdle == v_seed = None /\ v_added = <<>> /\ v_clips = <<>>

\* main, about to call get_visits on a folder
Init ==
    /\ listing \in {Named(l) : l \in Listings}
    /\ pc = "load" /\ error = "none" /\ fi = 1
    /\ all_records = <<>> /\ cameras = {} /\ camera = "" /\ records = <<>>
    /\ ri = 1 /\ current_visit = 0 /\ previous_record_end = None
    /\ visits = <<>> /\ cm = <<>> /\ animal_visits = <<>>
    /\ GuessIdle /\ ClipsIdle

\* -------------------------------------------------------------- get_visits
\* a file of the folder that is no stats file
SkipFile ==
    /\ pc = "load" /\ fi <= Len(listing)
    /\ ~is_stats_file(listing[fi].name)
    /\ fi' = fi + 1
    /\ UNCHANGED <<listing, pc, error, all_records, cameras, camera, records, ri,
                   current_visit, previous_record_end, visits, cm>>
    /\ UNCHANGED <<animal_visits, guessVars, clipsVars>>

\* ClipResult(...) raises on a malformed stats file; nothing catches it
LoadFileRaises ==
    /\ pc = "load" /\ fi <= Len(listing)
    /\ is_stats_file(listing[fi].name)
    /\ ~listing[fi].valid
    /\ pc' = "raised" /\ error' = "load"
    /\ UNCHANGED <<listing, fi, all_records, cameras, camera, records, ri,
                   current_visit, previous_record_end, visits, cm>>
    /\ UNCHANGED <<animal_visits, guessVars, clipsVars>>

LoadFile ==
    /\ pc = "load" /\ fi <= Len(listing)
    /\ is_stats_file(listing[fi].name)
    /\ listing[fi].valid
    /\ all_records' = LoadStep(all_records, listing[fi])
    /\ fi' = fi + 1
    /\ UNCHANGED <<listing, pc, error, cameras, camera, records, ri,
                   current_visit, previous_record_end, visits, cm>>
    /\ UNCHANGED <<animal_visits, guessVars, clipsVars>>

\* cameras = set(...); visits = []
CollectCameras ==
    /\ pc = "load" /\ fi > Len(listing)
    /\ cameras' = CamerasOf(all_records)
    /\ visits' = <<>>
    /\ pc' = "cameras"
    /\ UNCHANGED <<listing, error, fi, all_records, camera, records, ri,
                   current_visit, previous_record_end, cm>>
    /\ UNCHANGED <<animal_visits, guessVars, clipsVars>>

\* the top of "for camera in cameras", a set taken in any order
NextCamera ==
    /\ pc = "cameras"
    /\ \E c \in cameras :
        LET st == ResetClustering([visits |-> visits,
                                   current_visit |-> current_visit,
                                   previous_record_end |-> previous_record_end])
        IN  /\ camera' = c
            /\ cameras' = cameras \ {c}
            /\ records' = CameraRecords(all_records, c)
            /\ ri' = 1
            /\ current_visit' = st.current_visit
            /\ previous_record_end' = st.previous_record_end
            /\ pc' = IF CameraRecords(all_records, c) = <<>> THEN "cameras"
                     ELSE "records"
    /\ UNCHANGED <<listing, error, fi, all_records, visits, cm>>
    /\ UNCHANGED <<animal_visits, guessVars, clipsVars>>

\* one iteration of "for record in records"
ProcessRecord ==
    /\ pc = "records" /\ ri <= Len(records)
    /\ LET st == VisitStep([visits |-> visits,
                            current_visit |-> current_visit,
                            previous_record_end |-> previous_record_end],
                           records[ri])
       IN  /\ visits' = st.visits
           /\ current_visit' = st.current_visit
           /\ previous_record_end' = st.previous_record_end
    /\ ri' = ri + 1
    /\ pc' = IF ri = Len(records) THEN "cameras" ELSE "records"
    /\ UNCHANGED <<listing, error, fi, all_records, cameras, camera, records, cm>>
    /\ UNCHANGED <<animal_visits, guessVars, clipsVars>>

\* return visits
Return ==
    /\ pc = "cameras" /\ cameras = {}
    /\ pc' = "done"
    /\ UNCHANGED <<listing, error, fi, all_records, cameras, camera, records, ri,
                   current_visit, previous_record_end, visits, cm>>
    /\ UNCHANGED <<animal_visits, guessVars, clipsVars>>

\* -------------------------------------------------------- print_evaluation
\* show_breakdown: the confusion matrix over classes; with no instance at
\* all it raises (the division by len(true_class))
ShowBreakdown(level, true_class, pred_class, next) ==
    IF Len(true_class) = 0
    THEN /\ pc' = "raised" /\ error' = "breakdown" /\ cm' = cm
    ELSE /\ pc' = next /\ error' = error
         /\ cm' = DictSet(cm, level, ConfusionMatrix(true_class, pred_class, classes))

breakdown_tracks ==
    /\ pc = "done"
    /\ LET pairs == AllTrackPairs(visits)
       IN  ShowBreakdown("track",
                         [i \in 1..Len(pairs) |-> pairs[i][1]],
                         [i \in 1..Len(pairs) |-> pairs[i][2]],
                         "clips")
    /\ UNCHANGED <<listing, fi, all_records, cameras, camera, records, ri,
                   current_visit, previous_record_end, visits>>
    /\ UNCHANGED <<animal_visits, guessVars, clipsVars>>

breakdown_clips ==
    /\ pc = "clips"
    /\ LET clips == AllClips(visits)
       IN  ShowBreakdown("clip",
                         [i \in 1..Len(clips) |-> clips[i].true_tag],
                         [i \in 1..Len(clips) |-> clips[i].classifier_best_guess],
                         "visits")
    /\ UNCHANGED <<listing, fi, all_records, cameras, camera, records, ri,
                   current_visit, previous_record_end, visits>>
    /\ UNCHANGED <<animal_visits, guessVars, clipsVars>>

breakdown_visits ==
    /\ pc = "visits"
    /\ ShowBreakdown("visit",
                     [i \in 1..Len(visits) |-> VisitTrueTag(visits[i])],
                     [i \in 1..Len(visits) |-> predicted_tag(visits[i])],
                     "evaluated")
    /\ UNCHANGED <<listing, fi, all_records, cameras, camera, records, ri,
                   current_visit, previous_record_end, visits>>
    /\ UNCHANGED <<animal_visits, guessVars, clipsVars>>

\* ----------------------------------------------------------- print_summary
\* animal_visits = {}; for label in classes: animal_visits[label] = 0
SummaryInit == [label \in ClassSet |-> 0]

\* animal_visits[visit.predicted_tag] += 1, a KeyError when the tag is no
\* key of the dict; st.ok is FALSE once it was raised
SummaryStep(st, visit) ==
    LET tag == predicted_tag(visit)
    IN  IF ~st.ok THEN st
        ELSE IF tag \in DOMAIN st.counts
        THEN [st EXCEPT !.counts[tag] = @ + 1]
        ELSE [st EXCEPT !.ok = FALSE]

RECURSIVE SummaryLoop(_, _)
SummaryLoop(st, vs) ==
    IF vs = <<>> THEN st
    ELSE SummaryLoop(SummaryStep(st, Head(vs)), Tail(vs))

\* print_summary up to the printing of the per-class counts
print_summary ==
    /\ pc = "done"
    /\ LET st == SummaryLoop([counts |-> SummaryInit, ok |-> TRUE], visits)
       IN  /\ animal_visits' = st.counts
           /\ pc' = IF st.ok THEN "summarised" ELSE "raised"
           /\ error' = IF st.ok THEN error ELSE "summary"
    /\ UNCHANGED <<listing, fi, all_records, cameras, camera, records, ri,
                   current_visit, previous_record_end, visits, cm>>
    /\ UNCHANGED <<guessVars, clipsVars>>

Next ==
    \/ SkipFile
    \/ LoadFileRaises
    \/ LoadFile
    \/ CollectCameras
    \/ NextCamera
    \/ ProcessRecord
    \/ Return
    \/ breakdown_tracks
    \/ breakdown_clips
    \/ breakdown_visits
    \/ print_summary

Spec == Init /\ [][Next]_vars

\* ------------------------------------------------ get_best_guess on its own
\* a clip with at most MaxTracks tracks, about to compute its best guess
InitGuess ==
    /\ VisitIdle /\ ClipsIdle
    /\ \E raw \in UNION {[1..n -> GuessTracks] : n \in 0..MaxTracks} :
        g_tracks = [i \in 1..Len(raw) |-> TrackResult(raw[i])]
    /\ g_i = 1
    /\ g_st = BestGuessInit
    /\ g_pc = "loop"

\* one iteration of "for track in self.tracks"
BestGuessIterate ==
    /\ g_pc = "loop" /\ g_i <= Len(g_tracks)
    /\ g_st' = BestGuessStep(g_st, g_tracks[g_i])
    /\ g_i' = g_i + 1
    /\ UNCHANGED <<g_tracks, g_pc, visitVars, clipsVars>>

\* return best_label, best_confidence
BestGuessReturn ==
    /\ g_pc = "loop" /\ g_i > Len(g_tracks)
    /\ g_pc' = "returned"
    /\ UNCHANGED <<g_tracks, g_i, g_st, visitVars, clipsVars>>

NextGuess == BestGuessIterate \/ BestGuessReturn

SpecGuess == InitGuess /\ [][NextGuess]_vars

\* --------------------------------------------------- VisitResult on its own
\* VisitResult(first_clip)
InitClips ==
    /\ VisitIdle /\ GuessIdle
    /\ \E first_clip \in VisitClips :
        /\ v_seed = Some(first_clip)
        /\ v_clips = VisitResult(first_clip)
    /\ v_added = <<>>

\* visit.add_clip(clip), for any clip
AddClip ==
    /\ Len(v_added) < MaxAdds
    /\ \E clip \in VisitClips :
        /\ v_clips' = add_clip(v_clips, clip)
        /\ v_added' = Append(v_added, clip)
    /\ UNCHANGED <<v_seed, visitVars, guessVars>>

NextClips == AddClip

SpecClips == InitClips /\ [][NextClips]_vars

\* ================================================================== claims
CountIn(clips, c) == Cardinality({j \in 1..Len(clips) : clips[j] = c})

Occurrences(vs, c) ==
    SumOver([i \in 1..Len(vs) |-> CountIn(vs[i], c)], 1..Len(vs))

VisitsOfCamera(vs, cam) == SelectSeq(vs, LAMBDA v : VisitCamera(v) = cam)

RemoveAt(s, i) == SubSeq(s, 1, i - 1) \o SubSeq(s, i + 1, Len(s))

Eligible(record) ==
    record.true_tag \in ClassSet /\ record.classifier_best_guess \in ClassSet

\* C1: when get_visits returns, every clip that passes both filters is a
\* member of exactly one visit and occurs exactly once in its clip list.
C1_EachClipOnce ==
    pc = "done" =>
        \A i \in 1..Len(all_records) :
            Eligible(all_records[i]) => Occurrences(visits, all_records[i]) = 1

MaxScore(clips) ==
    CHOOSE m \in {clips[j].classifier_best_score : j \in 1..Len(clips)} :
        \A j \in 1..Len(clips) : clips[j].classifier_best_score <= m

LastMax(clips) ==
    CHOOSE j \in 1..Len(clips) :
        /\ clips[j].classifier_best_score = MaxScore(clips)
        /\ \A k \in (j + 1)..Len(clips) : clips[k].classifier_best_score < MaxScore(clips)

\* C3: the predicted_tag and predicted_confidence of every visit are the
\* best guess and best score of one clip: the last, in the visit's clip
\* order, of the clips holding the maximum score.
C3_PredictedFromLastMax ==
    \A i \in 1..Len(visits) :
        LET clips == visits[i]
        IN  /\ predicted_confidence(clips) = MaxScore(clips)
            /\ predicted_tag(clips) = clips[LastMax(clips)].classifier_best_guess

\* a visit two clips of which share the maximum score and differ in guess
C3_Witness ==
    \E i \in 1..Len(visits) :
        \E j, k \in 1..Len(visits[i]) :
            /\ j < k
            /\ visits[i][j].classifier_best_score = MaxScore(visits[i])
            /\ visits[i][k].classifier_best_score = MaxScore(visits[i])
            /\ visits[i][j].classifier_best_guess # visits[i][k].classifier_best_guess
            /\ k = LastMax(visits[i])
            /\ \E l \in 1..Len(visits[i]) :
                visits[i][l].classifier_best_score < MaxScore(visits[i])

MaxWeighted(tracks) ==
    IF tracks = <<>> THEN 0
    ELSE CHOOSE m \in {WeightedConfidence(tracks[j]) : j \in 1..Len(tracks)} :
            \A j \in 1..Len(tracks) : WeightedConfidence(tracks[j]) <= m

FirstReaching(tracks, m) ==
    CHOOSE j \in 1..Len(tracks) :
        /\ WeightedConfidence(tracks[j]) = m
        /\ \A k \in 1..(j - 1) : WeightedConfidence(tracks[k]) < m

\* C4 as claimed: get_best_guess returns the maximum weighted confidence of
\* the tracks and the label of the earliest track reaching it, and
\* (none, 0) for a clip with no tracks.
C4_EarliestMaxLabel ==
    g_pc = "returned" =>
        /\ g_st.best_confidence = MaxWeighted(g_tracks)
        /\ g_st.best_label =
            IF g_tracks = <<>> THEN "none"
            ELSE g_tracks[FirstReaching(g_tracks, MaxWeighted(g_tracks))].label

\* C4 amended: get_best_guess returns the maximum weighted confidence of the
\* tracks (0 with no tracks); the label is that of the earliest track
\* reaching the maximum when the maximum is above 0, and none when it is 0.
C4_EarliestPositiveMaxLabel ==
    g_pc = "returned" =>
        /\ g_st.best_confidence = MaxWeighted(g_tracks)
        /\ g_st.best_label =
            IF MaxWeighted(g_tracks) = 0 THEN "none"
            ELSE g_tracks[FirstReaching(g_tracks, MaxWeighted(g_tracks))].label

\* two tracks of different labels share a maximum above 0, one of them
\* weighted as none, and a third track stays below
C4_Witness ==
    /\ g_pc = "returned"
    /\ MaxWeighted(g_tracks) > 0
    /\ \E j, k, l \in 1..Len(g_tracks) :
        /\ j < k
        /\ j = FirstReaching(g_tracks, MaxWeighted(g_tracks))
        /\ WeightedConfidence(g_tracks[k]) = MaxWeighted(g_tracks)
        /\ g_tracks[k].label # g_tracks[j].label
        /\ "none" \in {g_tracks[j].label, g_tracks[k].label}
        /\ WeightedConfidence(g_tracks[l]) < MaxWeighted(g_tracks)

\* the files of the listing that are loaded and then left out of clustering
Excluded(files) ==
    {i \in 1..Len(files) :
        /\ is_stats_file(files[i].name)
        /\ files[i].valid
        /\ ~Eligible(ClipResult(files[i].stats, files[i].name))}

ListingCameras(files) ==
    {files[i].stats.camera : i \in {j \in 1..Len(files) : is_stats_file(files[j].name)}}

\* C5: a clip whose true_tag or best guess is outside classes is a member
\* of no visit at any time, and the visits returned for every camera are
\* those made from the listing with that clip's file removed.
C5_ExcludedClipsIgnored ==
    /\ \A i \in 1..Len(visits) : \A j \in 1..Len(visits[i]) : Eligible(visits[i][j])
    /\ pc = "done" =>
        \A i \in Excluded(listing) : \A cam \in ListingCameras(listing) :
            VisitsOfCamera(visits, cam) =
                ClusterCamera(LoadRecords(RemoveAt(listing, i)), cam)

\* an excluded clip lies, in time and in the listing, between two clips of
\* its camera that share a visit
C5_Witness ==
    /\ pc = "done"
    /\ Len(listing) = 3
    /\ 2 \in Excluded(listing)
    /\ listing[1].stats.start_time = 0
    /\ listing[2].stats.start_time = 0
    /\ listing[3].stats.start_time = 180
    /\ \A i \in 1..3 : listing[i].stats.camera = "cam1"
    /\ \E i \in 1..Len(visits) :
        \E j, k \in 1..Len(visits[i]) :
            visits[i][j].source.id = 1 /\ visits[i][k].source.id = 3

\* C6: at every point of get_visits the clips of a visit share its camera
\* and its true_tag, and each camera's loop starts with no current visit
\* and no previous end time and works on a visit of its own camera.
C6_VisitOfOneCameraAndTag ==
    /\ \A i \in 1..Len(visits) : \A j \in 1..Len(visits[i]) :
        /\ visits[i][j].camera = VisitCamera(visits[i])
        /\ visits[i][j].true_tag = VisitTrueTag(visits[i])
    /\ pc = "records" =>
        /\ ri = 1 => current_visit = 0 /\ previous_record_end = None
        /\ current_visit # 0 => VisitCamera(visits[current_visit]) = camera
        /\ previous_record_end # None =>
            /\ ri > 1
            /\ previous_record_end = Some(records[ri - 1].end_time)

\* the loop of the second camera starts after the first camera left a visit
\* of the same tag whose last clip ends less than 180 seconds before
C6_Witness ==
    /\ pc = "records" /\ ri = 1
    /\ visits # <<>>
    /\ LET last == visits[Len(visits)]
       IN  /\ VisitCamera(last) # camera
           /\ VisitTrueTag(last) = records[1].true_tag
           /\ records[1].start_time - last[Len(last)].end_time < 180
           /\ records[1].start_time - last[Len(last)].end_time >= 0

\* the instances of one ground-truth class each breakdown evaluates
TrackInstances(vs, class) ==
    LET clips == AllClips(vs)
    IN  SumOver([i \in 1..Len(clips) |->
                    IF clips[i].true_tag = class THEN Len(clips[i].tracks) ELSE 0],
                1..Len(clips))

\* those of them whose own label is in classes
LabelledTrackInstances(vs, class) ==
    LET clips == AllClips(vs)
    IN  SumOver([i \in 1..Len(clips) |->
                    IF clips[i].true_tag = class
                    THEN Cardinality({j \in 1..Len(clips[i].tracks) :
                                        clips[i].tracks[j].label \in ClassSet})
                    ELSE 0],
                1..Len(clips))

ClipInstances(vs, class) ==
    LET clips == AllClips(vs)
    IN  Cardinality({i \in 1..Len(clips) : clips[i].true_tag = class})

VisitInstances(vs, class) ==
    Cardinality({i \in 1..Len(vs) : vs[i][1].true_tag = class})

\* C7 as claimed: at each granularity the row of every class sums to the
\* number of evaluated instances of that ground-truth class, whatever the
\* predicted labels.
C7_RowSumsCountTruth ==
    \A class \in ClassSet :
        /\ "track" \in DOMAIN cm =>
            RowSum(cm["track"], class) = TrackInstances(visits, class)
        /\ "clip" \in DOMAIN cm =>
            RowSum(cm["clip"], class) = ClipInstances(visits, class)
        /\ "visit" \in DOMAIN cm =>
            RowSum(cm["visit"], class) = VisitInstances(visits, class)

\* C7 amended: at clip and visit granularity the row of every class sums to
\* the number of evaluated instances of that ground-truth class; at track
\* granularity it sums to the number of evaluated tracks of that class whose
\* own label is in the label set.
C7_RowSumsCountLabelledTruth ==
    \A class \in ClassSet :
        /\ "track" \in DOMAIN cm =>
            RowSum(cm["track"], class) = LabelledTrackInstances(visits, class)
        /\ "clip" \in DOMAIN cm =>
            RowSum(cm["clip"], class) = ClipInstances(visits, class)
        /\ "visit" \in DOMAIN cm =>
            RowSum(cm["visit"], class) = VisitInstances(visits, class)

\* all three matrices are built, from clips of two ground-truth classes, a
\* clip is predicted another class than its own and a track has a label
\* outside classes
C7_Witness ==
    /\ pc = "evaluated"
    /\ DOMAIN cm = {"track", "clip", "visit"}
    /\ cm["clip"]["none"]["bird"] > 0
    /\ cm["visit"]["bird"]["bird"] > 0
    /\ \E class \in ClassSet :
        LabelledTrackInstances(visits, class) < TrackInstances(visits, class)

IsMalformed(file) == is_stats_file(file.name) /\ ~file.valid

\* C8: a malformed stats file is skipped: the loading loop does not end the
\* run at it.
C8_MalformedFileSkipped ==
    \A i \in 1..Len(listing) :
        IsMalformed(listing[i]) => ~(pc = "raised" /\ error = "load" /\ fi = i)

EligibleOf(all, cam) ==
    {i \in 1..Len(all) : all[i].camera = cam /\ Eligible(all[i])}

\* C9: get_visits raises only at a malformed file and never enters the
\* record loop of a camera with nothing to cluster; when it returns, a
\* camera with no clip left to cluster has no visit, every other camera has
\* visits holding each of its clips, and with no clip at all there is no
\* visit.
C9_EmptyCameraNoVisits ==
    /\ error = "load" => fi \in 1..Len(listing) /\ IsMalformed(listing[fi])
    /\ pc = "records" => ri <= Len(records)
    /\ pc = "done" =>
        /\ \A cam \in ListingCameras(listing) :
            IF EligibleOf(all_records, cam) = {}
            THEN VisitsOfCamera(visits, cam) = <<>>
            ELSE \A i \in EligibleOf(all_records, cam) :
                    Occurrences(VisitsOfCamera(visits, cam), all_records[i]) >= 1
        /\ (\A cam \in ListingCameras(listing) : EligibleOf(all_records, cam) = {})
            => visits = <<>>

\* get_visits returned; the camera loop took a camera all of whose clips
\* have a true_tag outside classes, and another camera has a visit
C9_Witness ==
    /\ pc = "done"
    /\ \E cam \in CamerasOf(all_records) :
        /\ EligibleOf(all_records, cam) = {}
        /\ VisitsOfCamera(visits, cam) = <<>>
    /\ visits # <<>>

MinOf(S) == CHOOSE m \in S : \A x \in S : m <= x
MaxOf(S) == CHOOSE m \in S : \A x \in S : x <= m

\* C10: after any add_clip calls the clip list is in non-decreasing
\* start_time order and holds the seed and every added clip, each as often
\* as it was given; start_time is the earliest start of the members and
\* end_time the end of a member of latest start.
C10_ClipsSortedAndComplete ==
    LET given  == <<v_seed[1]>> \o v_added
        starts == {given[j].start_time : j \in 1..Len(given)}
    IN  /\ \A j \in 1..(Len(v_clips) - 1) :
            v_clips[j].start_time <= v_clips[j + 1].start_time
        /\ Len(v_clips) = Len(given)
        /\ \A c \in VisitClips : CountIn(v_clips, c) = CountIn(given, c)
        /\ VisitStartTime(v_clips) = MinOf(starts)
        /\ \E j \in 1..Len(given) :
            /\ given[j].start_time = MaxOf(starts)
            /\ given[j].end_time = VisitEndTime(v_clips)

\* clips were added out of time order, the second before the seed and the
\* third between them, and the visit does not end at the latest end_time
C10_Witness ==
    /\ Len(v_added) >= 2
    /\ v_added[1].start_time < v_seed[1].start_time
    /\ v_added[2].start_time > v_added[1].start_time
    /\ v_added[2].start_time < v_seed[1].start_time
    /\ VisitEndTime(v_clips) < MaxOf({v_clips[j].end_time : j \in 1..Len(v_clips)})

\* C11: every visit get_visits builds has at least one clip and a
\* predicted_tag in classes; print_summary raises no KeyError, and the counts
\* it prints, one per class, sum to the number of visits.
C11_PredictedTagInClasses ==
    /\ \A i \in 1..Len(visits) :
        Len(visits[i]) >= 1 /\ predicted_tag(visits[i]) \in ClassSet
    /\ error # "summary"
    /\ pc = "summarised" =>
        /\ DOMAIN animal_visits = ClassSet
        /\ SumOver(animal_visits, ClassSet) = Len(visits)
        /\ \A class \in ClassSet :
            animal_visits[class] =
                Cardinality({i \in 1..Len(visits) : predicted_tag(visits[i]) = class})

\* print_summary counted visits of two predicted tags, and a clip of a
\* visit has a track whose label is outside classes
C11_Witness ==
    /\ pc = "summarised"
    /\ Cardinality({class \in ClassSet : animal_visits[class] > 0}) >= 2
    /\ \E i \in 1..Len(visits) : \E j \in 1..Len(visits[i]) :
        \E k \in 1..Len(visits[i][j].tracks) :
            visits[i][j].tracks[k].label \notin ClassSet

====
